---- MODULE Spec2Model ----
(***************************************************************************)
(* Model of the review-history bookkeeping of the AI PR reviewer:          *)
(*   reviewer.py        (history store, metrics, main)                     *)
(*   review_memory.py   (history store, metrics)                           *)
(*   robust_openai.py   (response cache)                                   *)
(*                                                                         *)
(* JSON files are modelled by their parsed content plus a "kind" that says *)
(* whether the file is missing, unparseable, or what it parses to.         *)
(* Python's None is the string NoneVal in string-typed fields; a           *)
(* priority_score is <<v>> when it is an int/float v and <<>> otherwise.   *)
(***************************************************************************)
EXTENDS Integers, Sequences, FiniteSets, TLC

VARIABLES
    histFile,      \* review_history.json
    tmpFile,       \* review_history.json.tmp: "missing", "partial", "complete"
    summaryFile,   \* review_history.json.summary.json
    clock,         \* wall clock read by now_iso()
    call,          \* the last history call: its locals, log lines and result
    mIn,           \* input of the metric functions
    mOut,          \* their results
    cacheFile,     \* .cache/openai_responses.json
    hashSeed,      \* the string-hash seed of the running interpreter
    oaCall,        \* the last request_with_backoff call and what it returned
    pc,            \* where reviewer.main stands
    env,           \* the environment main started in
    loc,           \* the local variables of main
    reviewFile,    \* ai_review.md
    outFiles,      \* the other artifacts main writes
    rt,            \* a call of a retry loop: its arguments, position, result
    evo,           \* the files self_evolve.py reads and writes
    fIn,           \* arguments of a call of a pure function
    fOut           \* what the call returned

histVars == <<histFile, tmpFile, summaryFile, clock, call>>
metVars == <<mIn, mOut>>
cacheVars == <<cacheFile, hashSeed, oaCall>>
mainVars == <<pc, env, loc, reviewFile, outFiles>>
auxVars == <<rt, evo, fIn, fOut>>
vars == <<histFile, tmpFile, summaryFile, clock, call, mIn, mOut,
          cacheFile, hashSeed, oaCall, pc, env, loc, reviewFile, outFiles,
          rt, evo, fIn, fOut>>

-----------------------------------------------------------------------------
(* Bounds and scaled program constants *)

\* reviewer.py:37 MAX_HISTORY = 400, scaled
MAX_HISTORY == 2
\* review_memory.py:23 MAX_ENTRIES = 200, scaled (kept below MAX_HISTORY)
MAX_ENTRIES == 1
\* review_memory.py:104 window = 10, scaled
WINDOW_MEMORY == 3
\* reviewer.py:93 window = 8, scaled (kept below WINDOW_MEMORY)
WINDOW_REVIEWER == 2
\* number of now_iso() readings a behaviour may take
MaxClock == 4
\* the same, in the behaviours where saves may fail
MaxSaveClock == 3
\* the same, in the behaviours that start from an arbitrary history file
MaxLoadClock == 2
\* longest list given to the metric functions
MaxMetricLen == 3
\* runs of self_evolve.main in one behaviour
MaxEvolveRuns == 3
\* now_iso() readings in the behaviours where the other scripts read the
\* history
MaxReadClock == 2

NoneVal == "<None>"
Absent == "<absent>"

\* no retry loop called yet
NoRetry ==
    [status |-> "idle", fn |-> "none", imported |-> FALSE, client |-> FALSE,
     max_retries |-> 0, attempt |-> 0, outs |-> <<>>, ret |-> NoneVal]

\* the keys of the JSON objects self_evolve.py reads and writes
EvoKeys ==
    {"avg_priority", "prev_avg_priority", "new_avg_priority", "delta_priority",
     "timestamp"}

\* a JSON object: the keys it has and their values; {} is what load_json
\* gives for a missing or unreadable file
EmptyDict == [keys |-> {}, val |-> [k \in EvoKeys |-> 0]]

\* no dashboard summary and no evolution state yet; seen lists the
\* avg_priority each completed run of self_evolve.main has read
NoEvo == [summary |-> EmptyDict, state |-> EmptyDict, badge |-> "missing", report |-> "missing", seen |-> <<>>]

\* no pure function called yet
NoFn == [fn |-> "none"]

AuxIdle ==
    /\ rt = NoRetry
    /\ evo = NoEvo
    /\ fIn = NoFn
    /\ fOut = NoFn

-----------------------------------------------------------------------------
(* Python helpers *)

Min(a, b) == IF a < b THEN a ELSE b
Max(a, b) == IF a > b THEN a ELSE b

\* s[lo:hi] of a Python list (0-based, negative indices count from the end)
PyIndex(len, i) == IF i < 0 THEN Max(len + i, 0) ELSE Min(i, len)
PySlice(s, lo, hi) ==
    LET a == PyIndex(Len(s), lo)
        b == PyIndex(Len(s), hi)
    IN  IF a >= b THEN <<>> ELSE SubSeq(s, a + 1, b)
\* s[-n:] : -0 is 0, so s[-0:] is the whole list
PyLast(s, n) == PySlice(s, 0 - n, Len(s))

\* sha256 hex digest: an injective tag of the text
compute_hash(text) == <<"sha256", text>>

\* now_iso()
now_iso(c) == c

IsNumeric(p) == Len(p) = 1

RECURSIVE SumSeq(_)
SumSeq(s) == IF s = <<>> THEN 0 ELSE Head(s) + SumSeq(Tail(s))

\* [f(e) for e in s if keep(e)]
RECURSIVE Scores(_)
Scores(s) ==
    IF s = <<>> THEN <<>>
    ELSE IF IsNumeric(Head(s).priority_score)
         THEN <<Head(s).priority_score[1]>> \o Scores(Tail(s))
         ELSE Scores(Tail(s))

\* sum(1 for e in s if e.get("high_risk"))
RECURSIVE CountRisk(_)
CountRisk(s) ==
    IF s = <<>> THEN 0
    ELSE (IF Head(s).high_risk = TRUE THEN 1 ELSE 0) + CountRisk(Tail(s))

\* round(num/den, 2) in hundredths, ties to even
Round2(num, den) ==
    LET q == (num * 100) \div den
        r == (num * 100) % den
    IN  IF 2 * r > den THEN q + 1
        ELSE IF 2 * r < den THEN q
        ELSE IF q % 2 = 0 THEN q ELSE q + 1

-----------------------------------------------------------------------------
(* Files *)

\* A JSON file is [kind, entries]:
\*   "missing"     no such file
\*   "garbage"     does not parse as JSON
\*   "partial"     a JSON text that was cut off while being written
\*   "scalar"      parses to a number, string or null
\*   "obj"         parses to an object without the key 'entries'
\*                 (entries: a list it holds under another key)
\*   "objentries"  parses to an object with the key 'entries'
\*   "list"        parses to a list
Missing == [kind |-> "missing", entries |-> <<>>]
ListFile(es) == [kind |-> "list", entries |-> es]
PartialFile == [kind |-> "partial", entries |-> <<>>]

\* json.load succeeds
Parses(f) == f.kind \in {"list", "scalar", "obj", "objentries"}

LoadMutantAnyKey(f) ==
    IF Parses(f) /\ f.kind \in {"list", "obj", "objentries"} THEN f.entries
    ELSE <<>>
\* reviewer.load_history over safe_json_load: None when open or json.load
\* raises
load_history_reviewer(f) ==
    IF Parses(f) /\ f.kind = "list" THEN f.entries
    ELSE IF Parses(f) /\ f.kind = "objentries" THEN f.entries
    ELSE <<>>

\* review_memory.load_history
load_history_memory(f) ==
    IF f.kind = "missing" THEN <<>>
    ELSE IF ~Parses(f) THEN <<>>
    ELSE IF f.kind = "list" THEN f.entries
    ELSE IF f.kind = "objentries" THEN f.entries
    ELSE <<>>

-----------------------------------------------------------------------------
(* Metrics *)

CategoryOf(e) == IF e.category = Absent THEN "uncategorized" ELSE e.category

PerCategoryMutantSkipAbsent(s) ==
    [c \in {s[i].category : i \in 1..Len(s)} \ {Absent} |->
        Cardinality({i \in 1..Len(s) : s[i].category = c})]
\* per_cat[cat] = per_cat.get(cat, 0) + 1 over the entries
PerCategory(s) ==
    [c \in {CategoryOf(s[i]) : i \in 1..Len(s)} |->
        Cardinality({i \in 1..Len(s) : CategoryOf(s[i]) = c})]

\* round(mean(scores), 2) if scores else None
AvgScore(s) ==
    LET sc == Scores(s)
    IN  IF sc = <<>> THEN <<>> ELSE <<Round2(SumSeq(sc), Len(sc))>>

\* round(high_risk_count / len(entries) * 100, 2)
RiskRatio(s) == Round2(CountRisk(s) * 100, Len(s))

\* ---- IEEE-754 doubles, as far as the trend block uses them ----
\* A non-negative double is [i, f]: its integer part and the bits of its
\* fraction, most significant first. statistics.mean gives the double
\* nearest to the exact mean; prev_mean + 2 and prev_mean - 2 are rounded
\* to nearest, ties to even; comparisons are exact.

RECURSIVE BitLen(_)
BitLen(n) == IF n = 0 THEN 0 ELSE 1 + BitLen(n \div 2)

\* the bits of r/b (0 <= r < b) up to 53 significant bits, sig of which are
\* already taken by the integer part; the remainder that is left
RECURSIVE SigDigits(_, _, _, _)
SigDigits(r, b, acc, sig) ==
    IF sig = 53 \/ r = 0 THEN [bits |-> acc, rem |-> r]
    ELSE SigDigits(IF 2 * r >= b THEN 2 * r - b ELSE 2 * r, b,
                   Append(acc, IF 2 * r >= b THEN 1 ELSE 0),
                   IF sig > 0 \/ 2 * r >= b THEN sig + 1 ELSE 0)

\* bits + one unit in the last place; carry is 1 when it overflows
RECURSIVE IncBits(_)
IncBits(bits) ==
    IF bits = <<>> THEN [bits |-> <<>>, carry |-> 1]
    ELSE IF bits[Len(bits)] = 0
         THEN [bits |-> [bits EXCEPT ![Len(bits)] = 1], carry |-> 0]
    ELSE [bits |-> IncBits(SubSeq(bits, 1, Len(bits) - 1)).bits \o <<0>>,
          carry |-> IncBits(SubSeq(bits, 1, Len(bits) - 1)).carry]

RoundUp(i, bits) ==
    [i |-> i + IncBits(bits).carry, f |-> IncBits(bits).bits]

LastBitOdd(i, bits) ==
    IF bits = <<>> THEN i % 2 = 1 ELSE bits[Len(bits)] = 1

\* float(Fraction(a, b)) for a >= 0, b > 0
FromRational(a, b) ==
    LET i == a \div b
        d == SigDigits(a % b, b, <<>>, BitLen(i))
    IN  IF 2 * d.rem > b \/ (2 * d.rem = b /\ LastBitOdd(i, d.bits))
        THEN RoundUp(i, d.bits)
        ELSE [i |-> i, f |-> d.bits]

\* the double nearest to the exact value [i, f], for i > 0
RoundDouble(i, f) ==
    LET k == 53 - BitLen(i)
        kept == SubSeq(f, 1, k)
        tail == SubSeq(f, k + 1, Len(f))
        more == \E j \in 2..Len(tail) : tail[j] = 1
    IN  IF Len(f) <= k THEN [i |-> i, f |-> f]
        ELSE IF tail[1] = 1 /\ (more \/ LastBitOdd(i, kept))
             THEN RoundUp(i, kept)
        ELSE [i |-> i, f |-> kept]

\* x + 2
AddTwo(x) == RoundDouble(x.i + 2, x.f)

\* x - 2 for x >= 2: the result has no more significant bits than x, so it
\* is exact
SubTwo(x) == [i |-> x.i - 2, f |-> x.f]

BitAt(f, j) == IF j <= Len(f) THEN f[j] ELSE 0

\* x < y
FloatLess(x, y) ==
    \/ x.i < y.i
    \/ /\ x.i = y.i
       /\ \E k \in 1..Max(Len(x.f), Len(y.f)) :
             /\ BitAt(x.f, k) = 0 /\ BitAt(y.f, k) = 1
             /\ \A j \in 1..(k - 1) : BitAt(x.f, j) = BitAt(y.f, j)

\* statistics.mean of a non-empty list of non-negative ints
mean(xs) == FromRational(SumSeq(xs), Len(xs))

\* mean(recent) > mean(prev) + 2
Improving(recent, prev) == FloatLess(AddTwo(mean(prev)), mean(recent))

\* mean(recent) < mean(prev) - 2 (never so when mean(prev) < 2, the scores
\* being non-negative)
Declining(recent, prev) ==
    /\ mean(prev).i >= 2
    /\ FloatLess(mean(recent), SubTwo(mean(prev)))

\* the trend block shared by both metric functions, for a given window
Trend(s, window) ==
    LET recent == Scores(PySlice(s, 0 - window, Len(s)))
        prev == Scores(PySlice(s, 0 - 2 * window, 0 - window))
    IN  IF recent # <<>> /\ prev # <<>>
        THEN IF Improving(recent, prev) THEN "improving"
             ELSE IF Declining(recent, prev) THEN "declining"
             ELSE "stable"
        ELSE NoneVal

EmptyMetrics ==
    [total_reviews |-> 0, avg_priority_score |-> <<>>, per_category |-> <<>>,
     high_risk_count |-> 0, risk_ratio |-> 0, recent_trend |-> NoneVal]

MetricsOf(s, window) ==
    IF s = <<>> THEN EmptyMetrics
    ELSE [total_reviews |-> Len(s),
          avg_priority_score |-> AvgScore(s),
          per_category |-> PerCategory(s),
          high_risk_count |-> CountRisk(s),
          risk_ratio |-> RiskRatio(s),
          recent_trend |-> Trend(s, window)]

\* review_memory.compute_metrics
compute_metrics(s) == MetricsOf(s, WINDOW_MEMORY)

\* reviewer.compute_history_metrics
compute_history_metrics(s) == MetricsOf(s, WINDOW_REVIEWER)

-----------------------------------------------------------------------------
(* History store *)

Truthy(x) == x \notin {NoneVal, ""}

\* first index (1-based) at which bs is TRUE, 0 for None
FirstIndex(bs) ==
    IF \E i \in 1..Len(bs) : bs[i]
    THEN CHOOSE i \in 1..Len(bs) : bs[i] /\ \A j \in 1..(i - 1) : ~bs[j]
    ELSE 0

\* review_memory.find_duplicate
find_duplicate(entries, pr_number, content_hash) ==
    FirstIndex([i \in 1..Len(entries) |->
        \/ (Truthy(pr_number) /\ entries[i].pr_number = pr_number)
        \/ entries[i].content_hash = content_hash])

\* reviewer.find_history_duplicate
find_history_duplicate(entries, pr_number, content_hash) ==
    FirstIndex([i \in 1..Len(entries) |->
        \/ (Truthy(pr_number) /\ Truthy(entries[i].pr_number)
              /\ entries[i].pr_number = pr_number)
        \/ entries[i].content_hash = content_hash])

\* review_memory.make_entry
make_entry(pr_number, title, category, priority_score, high_risk, content_preview, timestamp, extra) ==
    [pr_number |-> pr_number, title |-> title, category |-> category,
     priority_score |-> <<priority_score>>, high_risk |-> high_risk,
     content_hash |-> compute_hash(content_preview),
     timestamp |-> timestamp,
     meta |-> IF extra = NoneVal THEN Absent ELSE extra]

\* the entry dict built in reviewer.update_history
reviewer_entry(pr_number, title, category, priority_score, high_risk, content_preview, timestamp, extra) ==
    [pr_number |-> IF Truthy(pr_number) THEN pr_number ELSE NoneVal,
     title |-> title, category |-> category,
     priority_score |-> <<priority_score>>, high_risk |-> high_risk,
     content_hash |-> compute_hash(content_preview),
     timestamp |-> timestamp,
     meta |-> IF extra = NoneVal THEN "{}" ELSE extra]

TrimMutantFirst(entries, max_entries) ==
    IF Len(entries) <= max_entries THEN entries
    ELSE SubSeq(entries, 1, max_entries)
\* review_memory.trim_history
trim_history(entries, max_entries) ==
    IF Len(entries) <= max_entries THEN entries
    ELSE PyLast(entries, max_entries)

PutMutantMoveToEnd(entries, dup_idx, entry) ==
    IF dup_idx # 0
    THEN Append(SubSeq(entries, 1, dup_idx - 1)
                  \o SubSeq(entries, dup_idx + 1, Len(entries)), entry)
    ELSE Append(entries, entry)
\* entries[dup_idx] = entry, or entries.append(entry)
Put(entries, dup_idx, entry) ==
    IF dup_idx # 0 THEN [entries EXCEPT ![dup_idx] = entry]
    ELSE Append(entries, entry)

SaveMutantDirect(file, tmp, content, fail) ==
    IF fail = "open" THEN [file |-> file, tmp |-> tmp, ok |-> FALSE]
    ELSE IF fail \in {"write", "replace"}
         THEN [file |-> PartialFile, tmp |-> tmp, ok |-> FALSE]
    ELSE [file |-> content, tmp |-> tmp, ok |-> TRUE]
\* safe_json_save / review_memory.save_history: write path.tmp, then
\* os.replace(tmp, path); any exception is caught and reported.
\* fail is the step that raises: "open", "write" (json.dump), "replace",
\* or "none". The temporary file is never read back, so only its condition
\* is kept.
SafeJsonSave(file, tmp, content, fail) ==
    IF fail = "open" THEN [file |-> file, tmp |-> tmp, ok |-> FALSE]
    ELSE IF fail = "write"
         THEN [file |-> file, tmp |-> "partial", ok |-> FALSE]
    ELSE IF fail = "replace"
         THEN [file |-> file, tmp |-> "complete", ok |-> FALSE]
    ELSE [file |-> content, tmp |-> "missing", ok |-> TRUE]

SaveFailures == {"none", "open", "write", "replace"}

\* what the last history call left behind: the list load_history gave it,
\* the entry it built, the index find_duplicate returned (1-based, 0 for
\* None), its log line, whether the save went through, whether the save
\* printed its failure message, and whether an exception left the call
NoCall ==
    [op |-> "none", mod |-> "none", loaded |-> <<>>,
     entry |-> [pr_number |-> NoneVal],
     dup_idx |-> 0, log |-> "none", saved |-> FALSE, warned |-> FALSE,
     raised |-> FALSE]

-----------------------------------------------------------------------------
(* robust_openai: the response cache *)

\* robust_openai.py:37 max_retries = 4, scaled
MAX_RETRIES_BACKOFF == 2

\* the joined message contents of a call, "" included
Prompts == {"", "p1", "p2"}
PromptNumber(p) == IF p = "" THEN 0 ELSE IF p = "p1" THEN 1 ELSE 2
Texts == {"r1", "r2"}
\* PYTHONHASHSEED: drawn afresh by every interpreter unless it is pinned
HashSeeds == {0, 1}

\* hash(str): 0 for the empty string; otherwise it depends on the seed of
\* the interpreter, differs between strings and may be negative
PyStrHash(seed, p) ==
    IF p = "" THEN 0
    ELSE IF (PromptNumber(p) + seed) % 2 = 0
         THEN PromptNumber(p) + 2 * seed
    ELSE 0 - (PromptNumber(p) + 2 * seed)

Abs(x) == IF x < 0 THEN 0 - x ELSE x

\* prompt_hash = str(abs(hash("".join(...))))
PromptHash(seed, p) == Abs(PyStrHash(seed, p))

\* the cache file is [kind, map]: map takes a prompt hash to the text stored
\* under it (with the prompt the text answered, which the file does not
\* hold, kept beside it to state the properties)
NoCacheFile == [kind |-> "missing", map |-> <<>>]

\* _load_cache: {} when the file is missing or does not parse
load_cache(f) == IF f.kind = "dict" THEN f.map ELSE <<>>

\* cache[prompt_hash] = {...}
CachePut(cache, h, text, p) ==
    [k \in DOMAIN cache \cup {h} |->
        IF k = h THEN [text |-> text, prompt |-> p] ELSE cache[k]]

\* _save_cache: write_text truncates the file and writes it; fail is the
\* step that raises ("open", "write") or "none"
save_cache(f, cache, fail) ==
    IF fail = "open" THEN f
    ELSE IF fail = "write" THEN [kind |-> "garbage", map |-> <<>>]
    ELSE [kind |-> "dict", map |-> cache]

CacheFailures == {"none", "open", "write"}

\* what the attempts of the retry loop meet, in order: "ok" (a completion),
\* "rate" (RateLimitError / ServiceUnavailableError), "api" (APIError),
\* "other" (any other exception)
AttemptOutcomes == {"ok", "rate", "api", "other"}

\* index of the attempt that ends the loop with a completion, 0 if none
RECURSIVE FirstOk(_, _)
FirstOk(outs, i) ==
    IF i > Len(outs) THEN 0
    ELSE IF outs[i] = "ok" THEN i
    ELSE IF outs[i] = "other" THEN 0
    ELSE FirstOk(outs, i + 1)

NoOaCall ==
    [op |-> "none", prompt |-> "", live |-> FALSE, ret |-> NoneVal,
     cached |-> FALSE]

\* request_with_backoff(openai_key, messages): client says whether a key is
\* present and the OpenAI class was imported
RequestWithBackoff(client, p, outs, text, fail) ==
    \E h \in {PromptHash(hashSeed, p)} :
    \E cache \in {load_cache(cacheFile)} :
    \E ok \in {IF client THEN FirstOk(outs, 1) ELSE 0} :
        IF ok # 0
        THEN /\ cacheFile' = save_cache(cacheFile,
                                        CachePut(cache, h, text, p), fail)
             /\ oaCall' = [op |-> "request", prompt |-> p, live |-> TRUE,
                           ret |-> text, cached |-> FALSE]
        ELSE /\ cacheFile' = cacheFile
             /\ oaCall' = [op |-> "request", prompt |-> p, live |-> FALSE,
                           ret |-> IF h \in DOMAIN cache THEN cache[h].text
                                   ELSE NoneVal,
                           cached |-> h \in DOMAIN cache]

Request ==
    /\ \E client \in BOOLEAN, p \in Prompts, text \in Texts,
          fail \in CacheFailures,
          outs \in [1..MAX_RETRIES_BACKOFF -> AttemptOutcomes] :
            RequestWithBackoff(client, p, outs, text, fail)
    /\ UNCHANGED hashSeed

\* the script ends and a later workflow run starts a new interpreter
NewProcess ==
    /\ hashSeed' \in HashSeeds
    /\ oaCall' = NoOaCall
    /\ UNCHANGED cacheFile

CacheIdle ==
    /\ cacheFile = NoCacheFile
    /\ hashSeed = 0
    /\ oaCall = NoOaCall

CacheInit ==
    /\ cacheFile = NoCacheFile
    /\ hashSeed \in HashSeeds
    /\ oaCall = NoOaCall

-----------------------------------------------------------------------------
(* Inputs of the history calls *)

PRs == {NoneVal, "1", "2"}
SavePRs == {"1", "2"}
Previews == {"", "diffA", "diffB"}
Titles == {"T"}
Categories == {"bug fix"}
Priorities == {50}
Risks == {FALSE}
Extras == {NoneVal}

\* the summary snapshot: reviewer.py goes through safe_json_save, whose
\* failure leaves the snapshot as it was; review_memory.py writes the file
\* in place, so a failed json.dump leaves it truncated
SummaryAfter(old, metrics, sfail, inPlace) ==
    IF sfail = "none" THEN [kind |-> "complete", metrics |-> metrics]
    ELSE IF sfail = "write" /\ inPlace
         THEN [kind |-> "partial", metrics |-> EmptyMetrics]
    ELSE old

SummaryFailures == {"none", "write"}

\* reviewer.update_history (with reviewer.save_history)
UpdateHistoryReviewer(pr_number, title, category, priority_score, high_risk, content_preview, extra, fail, sfail) ==
    /\ clock' = clock + 1
    /\ \E entries0 \in {load_history_reviewer(histFile)} :
       \E dup_idx \in {find_history_duplicate(entries0,
                          IF Truthy(pr_number) THEN pr_number ELSE NoneVal,
                          compute_hash(content_preview))} :
       \E entry \in {reviewer_entry(pr_number, title, category,
                          priority_score, high_risk, content_preview,
                          now_iso(clock), extra)} :
       \E kept \in {PyLast(Put(entries0, dup_idx, entry), MAX_HISTORY)} :
       \E sv \in {SafeJsonSave(histFile, tmpFile, ListFile(kept), fail)} :
          /\ histFile' = sv.file
          /\ tmpFile' = sv.tmp
          /\ summaryFile' = SummaryAfter(summaryFile,
                                compute_history_metrics(kept), sfail, FALSE)
          /\ call' = [NoCall EXCEPT !.op = "update", !.mod = "reviewer",
                         !.loaded = entries0, !.entry = entry, !.dup_idx = dup_idx,
                         !.log = IF dup_idx # 0 THEN "replaced"
                                 ELSE "appended",
                         !.saved = sv.ok, !.warned = ~sv.ok]

\* review_memory.update_history
UpdateHistoryMemory(pr_number, title, category, priority_score, high_risk, content_preview, max_entries, replace_duplicate, extra, fail, sfail) ==
    /\ clock' = clock + 1
    /\ \E entries0 \in {load_history_memory(histFile)} :
       \E dup_idx \in {find_duplicate(entries0, pr_number,
                                      compute_hash(content_preview))} :
       \E new_entry \in {make_entry(pr_number, title, category,
                            priority_score, high_risk, content_preview,
                            now_iso(clock), extra)} :
       \E entries \in {trim_history(
                          IF dup_idx # 0 /\ ~replace_duplicate THEN entries0
                          ELSE Put(entries0, dup_idx, new_entry),
                          max_entries)} :
       \E sv \in {SafeJsonSave(histFile, tmpFile, ListFile(entries), fail)} :
          /\ histFile' = sv.file
          /\ tmpFile' = sv.tmp
          /\ summaryFile' = SummaryAfter(summaryFile,
                                         compute_metrics(entries), sfail, TRUE)
          /\ call' = [NoCall EXCEPT !.op = "update", !.mod = "memory",
                         !.loaded = entries0, !.entry = new_entry, !.dup_idx = dup_idx,
                         !.log = IF dup_idx # 0
                                 THEN IF replace_duplicate THEN "replaced"
                                      ELSE "not replaced"
                                 ELSE "appended",
                         !.saved = sv.ok, !.warned = ~sv.ok]

ReviewerUpdate(prs, fails, sfails, limit) ==
    /\ clock < limit
    /\ \E pr \in prs, t \in Titles, c \in Categories, p \in Priorities,
       hr \in Risks, cp \in Previews, x \in Extras, f \in fails,
       sf \in sfails :
        UpdateHistoryReviewer(pr, t, c, p, hr, cp, x, f, sf)

MemoryUpdate(prs, fails, sfails, replace, limit) ==
    /\ clock < limit
    /\ \E pr \in prs, t \in Titles, c \in Categories, p \in Priorities,
       hr \in Risks, cp \in Previews, x \in Extras, f \in fails,
       sf \in sfails, rd \in replace :
        UpdateHistoryMemory(pr, t, c, p, hr, cp, MAX_ENTRIES, rd, x, f, sf)

\* a call of reviewer.load_history
LoadReviewer ==
    /\ call' = [NoCall EXCEPT !.op = "load", !.mod = "reviewer",
                              !.loaded = load_history_reviewer(histFile)]
    /\ UNCHANGED <<histFile, tmpFile, summaryFile, clock>>

\* a call of review_memory.load_history; it warns when json.load raises
LoadMemory ==
    /\ call' = [NoCall EXCEPT !.op = "load", !.mod = "memory",
                              !.loaded = load_history_memory(histFile),
                              !.log = IF histFile.kind \in {"garbage", "partial"}
                                      THEN "warn" ELSE "none"]
    /\ UNCHANGED <<histFile, tmpFile, summaryFile, clock>>

-----------------------------------------------------------------------------
(* reviewer.main *)

\* largest max_retries argument tried
MaxRetriesArg == 3

RetryFunctions == {"request_with_retry", "run_openai"}

\* what one client.chat.completions.create call does: it returns a
\* completion (whose content is a text, empty or None) or raises
Completion(c) == [kind |-> "completion", what |-> c]
Raises(e) == [kind |-> "exception", what |-> e]
CallOutcomes ==
    {Completion(c) : c \in {"live", "", NoneVal}}
    \cup {Raises(e) : e \in {"rate limit", "api error", "other"}}

ExceptMutantRetryAll(imported, e) == "RateLimitError"
\* the except clause that takes exception e. When the import of openai
\* failed, RateLimitError and APIError are both bound to Exception and the
\* first clause takes every exception.
ExceptClause(imported, e) ==
    IF ~imported THEN "RateLimitError"
    ELSE IF e = "rate limit" THEN "RateLimitError"
    ELSE IF e = "api error" THEN "APIError"
    ELSE "Exception"

\* reviewer.py:384 max_retries=3
MAX_RETRIES_REVIEW == 3
\* reviewer.py:483 alog["history"][-500:], scaled
ADAPTIVE_KEEP == 2

MockText == "mock"
FallbackText == "fallback"
\* texts a completion may carry
LiveTexts == {"live", "liveRisky"}

\* len(re.findall(r"^- |\n- ", ai_feedback))
Bullets(text) ==
    IF text = MockText THEN 4
    ELSE IF text = "live" THEN 3
    ELSE IF text = "liveRisky" THEN 10
    ELSE 0

\* re.search(r"\b(security|vulnerab|...)\b", ai_feedback)
HighRiskDetect(text) == text = "liveRisky"

\* base_score / priority_score
PriorityScore(text) ==
    IF HighRiskDetect(text)
    THEN Max(80, Min(100, Bullets(text) * 10) + 10)
    ELSE Min(100, Bullets(text) * 10)

FeedbackMutantNoFallback(f) == f
\* if not ai_feedback: ai_feedback = "## Mock fallback..."
FeedbackOrFallback(f) == IF Truthy(f) THEN f ELSE FallbackText

\* the keywords categorize_pr looks for, by the text that carries them
KeywordsOf(text) ==
    IF text = "diffA" THEN {"fix"}
    ELSE IF text = "B" THEN {"add"}
    ELSE {}

categorize_pr(title, body, diff_content) ==
    LET ws == KeywordsOf(title) \cup KeywordsOf(body)
                \cup KeywordsOf(diff_content)
    IN  IF "fix" \in ws THEN "bug fix"
        ELSE IF "add" \in ws THEN "feature addition"
        ELSE IF "refactor" \in ws THEN "refactor"
        ELSE IF "doc" \in ws THEN "documentation update"
        ELSE IF "test" \in ws THEN "test update"
        ELSE "general change"

\* diff[:2000]
DiffPreview(diff) == IF diff = "diffLong" THEN "diffB" ELSE diff

\* pr_diff.patch: NoneVal when the file cannot be read
DiffFiles == {NoneVal, "", "diffA", "diffLong"}

\* read_diff: "" when the read raises
read_diff(file) == IF file = NoneVal THEN "" ELSE file

\* ai_self_score against the thresholds 0.75 and 0.92; the score itself
\* comes out of text heuristics and is left open
ScoreBands == {"low", "normal", "high"}

NoEnv ==
    [repo |-> "", pr_number |-> "", token |-> "", openai_key |-> "",
     OpenAI |-> FALSE, diff |-> NoneVal]

NoLoc ==
    [outcome |-> "none", mode |-> "MOCK", title |-> "", body |-> "",
     category |-> "", ai_feedback |-> NoneVal, attempt |-> 0,
     band |-> "normal", priority_score |-> 0, high_risk |-> FALSE,
     adjust_note |-> "", wrote |-> FALSE, posted |-> FALSE,
     caution |-> "normal", after_selfcal |-> FALSE, steps |-> <<>>]

NoReview == [kind |-> "missing", text |-> ""]

\* ai_self_eval.json, review_metadata.json, ai_adaptive_log.json (its kind
\* and the length of its "history" list) and reward_log.json
NoOutFiles ==
    [self_eval |-> "missing", metadata |-> "missing",
     adaptive |-> [kind |-> "missing", n |-> 0], reward |-> "missing"]

MainIdle ==
    /\ pc = "idle"
    /\ env = NoEnv
    /\ loc = NoLoc
    /\ reviewFile = NoReview
    /\ outFiles = NoOutFiles

\* reviewer.py:140 history_entries[-12:], scaled: for the runs of main, whose
\* history holds at most MAX_HISTORY entries, and for the function taken alone
ANALYZE_WINDOW == 1
ANALYZE_SLICE == 2
\* longest history given to analyze_adaptive_settings taken alone
MaxAnalyzeLen == 3
\* history writes after which no further run is started
MaxRunClock == 5
\* reviewer.py:144 avg_score < 35
LOW_AVG == 35
\* reviewer.py:145 avg_score < 70
HIGH_AVG == 70

Setting(tone, depth, caution) ==
    [tone |-> tone, depth |-> depth, caution_level |-> caution]

\* avg_score < limit, where avg_score is mean(scores), or 0 without scores
AvgBelow(scores, limit) ==
    IF scores = <<>> THEN 0 < limit
    ELSE FloatLess(mean(scores), FromRational(limit, 1))

AnalyzeMutantIgnoreRisk(history_entries, window) == IF history_entries = <<>> THEN Setting("neutral", "standard", "normal") ELSE IF AvgBelow(Scores(PyLast(history_entries, window)), LOW_AVG) THEN Setting("concise", "light", "low") ELSE IF AvgBelow(Scores(PyLast(history_entries, window)), HIGH_AVG) THEN Setting("balanced", "standard", "normal") ELSE Setting("cautious", "deep", "high")
\* lines 138-147, the length of the slice history_entries[-12:] left open
AnalyzeOver(history_entries, window) ==
    IF history_entries = <<>>
    THEN Setting("neutral", "standard", "normal")
    ELSE LET recent == PyLast(history_entries, window)
             scores == Scores(recent)
         IN  IF AvgBelow(scores, LOW_AVG) /\ CountRisk(recent) = 0
             THEN Setting("concise", "light", "low")
             ELSE IF AvgBelow(scores, HIGH_AVG)
                  THEN Setting("balanced", "standard", "normal")
             ELSE Setting("cautious", "deep", "high")

\* reviewer.analyze_adaptive_settings as main calls it on a history that
\* holds at most MAX_HISTORY entries
analyze_adaptive_settings(history_entries) ==
    AnalyzeOver(history_entries, ANALYZE_WINDOW)

\* load_adaptive_log: the "history" length, 0 when the file is no dict
load_adaptive_log(f) == IF f.kind = "dict" THEN f.n ELSE 0

\* lines 313-325
MainStartWith(repos, prs, tokens, keys, imports, diffs) ==
    /\ pc = "idle"
    /\ \E repo \in repos, pr_number \in prs, token \in tokens,
          openai_key \in keys, OpenAI \in imports, diff \in diffs :
          /\ env' = [repo |-> repo, pr_number |-> pr_number, token |-> token,
                     openai_key |-> openai_key, OpenAI |-> OpenAI,
                     diff |-> diff]
          /\ IF Truthy(repo) /\ Truthy(pr_number) /\ Truthy(token)
             THEN /\ pc' = "fetch"
                  /\ loc' = [NoLoc EXCEPT !.outcome = "running",
                               !.after_selfcal = loc.after_selfcal,
                               !.mode = IF Truthy(openai_key) /\ OpenAI
                                        THEN "LIVE" ELSE "MOCK"]
             ELSE /\ pc' = "done"
                  /\ loc' = [NoLoc EXCEPT !.outcome = "fatal"]
    /\ UNCHANGED <<reviewFile, outFiles, histVars, metVars, cacheVars, auxVars>>

MainStart == MainStartWith({"", "owner/repo"}, {"", "1"}, {"", "tok"}, {"", "key"}, BOOLEAN, DiffFiles)

\* lines 327-337: the GitHub fetch answers, answers not ok, or raises
FetchPRWith(answers) ==
    /\ pc = "fetch"
    /\ \E r \in answers :
          loc' = [loc EXCEPT !.title = IF r = "ok" THEN "T" ELSE "",
                             !.body = IF r = "ok" THEN "B" ELSE ""]
    /\ pc' = "diff"
    /\ UNCHANGED <<env, reviewFile, outFiles, histVars, metVars, cacheVars, auxVars>>

FetchPR == FetchPRWith({"ok", "not ok", "exception"})

ReadDiffMutantSuccess == pc = "diff" /\ (IF read_diff(env.diff) = "" THEN outFiles' = [outFiles EXCEPT !.metadata = "success"] /\ loc' = [loc EXCEPT !.outcome = "no diff"] /\ pc' = "done" ELSE pc' = "adaptive" /\ UNCHANGED <<outFiles, loc>>) /\ UNCHANGED <<env, reviewFile, histVars, metVars, cacheVars, auxVars>>
\* lines 339-344
ReadDiff ==
    /\ pc = "diff"
    /\ IF read_diff(env.diff) = ""
       THEN /\ outFiles' = [outFiles EXCEPT !.metadata = "failure"]
            /\ loc' = [loc EXCEPT !.outcome = "no diff"]
            /\ pc' = "done"
       ELSE /\ pc' = "adaptive"
            /\ UNCHANGED <<outFiles, loc>>
    /\ UNCHANGED <<env, reviewFile, histVars, metVars, cacheVars, auxVars>>

\* lines 346-357: the pre-review snapshot goes into the adaptive log
DeriveAdaptive ==
    /\ pc = "adaptive"
    /\ outFiles' = [outFiles EXCEPT !.adaptive =
                      [kind |-> "dict",
                       n |-> load_adaptive_log(outFiles.adaptive) + 1]]
    /\ loc' = [loc EXCEPT !.category =
                  categorize_pr(loc.title, loc.body, read_diff(env.diff)),
                          !.caution = analyze_adaptive_settings(
                              load_history_reviewer(histFile)).caution_level]
    /\ pc' = "client"
    /\ UNCHANGED <<env, reviewFile, histVars, metVars, cacheVars, auxVars>>

\* lines 381-386
MakeClient ==
    /\ pc = "client"
    /\ IF loc.mode = "LIVE" /\ env.OpenAI
       THEN /\ pc' = "request"
            /\ loc' = [loc EXCEPT !.attempt = 1]
       ELSE /\ pc' = "selfeval"
            /\ loc' = [loc EXCEPT !.ai_feedback = MockText]
    /\ UNCHANGED <<env, reviewFile, outFiles, histVars, metVars, cacheVars, auxVars>>

\* request_with_retry, one attempt of its loop
RetryAttemptWith(outcomes) ==
    /\ pc = "request"
    /\ \E o \in outcomes :
          IF o.kind = "completion"
          THEN /\ loc' = [loc EXCEPT !.ai_feedback = o.what]
               /\ pc' = "selfeval"
          ELSE IF ExceptClause(env.OpenAI, o.what) # "Exception"
                  /\ loc.attempt < MAX_RETRIES_REVIEW
               THEN /\ loc' = [loc EXCEPT !.attempt = loc.attempt + 1]
                    /\ pc' = "request"
          ELSE /\ loc' = [loc EXCEPT !.ai_feedback = NoneVal]
               /\ pc' = "selfeval"
    /\ UNCHANGED <<env, reviewFile, outFiles, histVars, metVars, cacheVars, auxVars>>

RetryAttempt == RetryAttemptWith({Completion(c) : c \in LiveTexts \cup {"", NoneVal}} \cup {Raises(e) : e \in {"rate limit", "api error", "other"}})

\* lines 387-417
SelfEvalWith(bands) ==
    /\ pc = "selfeval"
    /\ \E band \in bands :
          loc' = [loc EXCEPT !.ai_feedback = FeedbackOrFallback(loc.ai_feedback),
                             !.band = band,
                             !.steps = Append(@, "self-evaluation")]
    /\ outFiles' = [outFiles EXCEPT !.self_eval = "complete"]
    /\ pc' = "review"
    /\ UNCHANGED <<env, reviewFile, histVars, metVars, cacheVars, auxVars>>

SelfEval == SelfEvalWith(ScoreBands)

\* what open(FEEDBACK_PATH, "w") and the writes leave when fail is the step
\* that raises: "open" leaves the file as it was, "write" leaves it
\* truncated after part (none or the feedback) was written
ReviewFailures == {"none", "open", "write"}

\* lines 419-435
WriteReviewWith(fails) ==
    /\ pc = "review"
    /\ \E fail \in fails :
          /\ loc' = [loc EXCEPT !.wrote = (fail = "none"),
                                !.steps = Append(@, "review file")]
          /\ IF fail = "none"
             THEN reviewFile' = [kind |-> "complete", text |-> loc.ai_feedback]
             ELSE IF fail = "open"
                  THEN reviewFile' = reviewFile
             ELSE \E part \in {"", loc.ai_feedback} :
                     reviewFile' = [kind |-> "partial", text |-> part]
    /\ pc' = "history"
    /\ UNCHANGED <<env, outFiles, histVars, metVars, cacheVars, auxVars>>

WriteReview == WriteReviewWith(ReviewFailures)

\* lines 437-451
RecordHistory ==
    /\ pc = "history"
    /\ UpdateHistoryReviewer(env.pr_number, loc.title, loc.category, PriorityScore(loc.ai_feedback), HighRiskDetect(loc.ai_feedback), DiffPreview(read_diff(env.diff)), loc.mode, "none", "none")
    /\ loc' = [loc EXCEPT !.priority_score = PriorityScore(loc.ai_feedback),
                          !.high_risk = HighRiskDetect(loc.ai_feedback),
                          !.steps = Append(@, "history")]
    /\ pc' = "reward"
    /\ UNCHANGED <<env, reviewFile, outFiles, metVars, cacheVars, auxVars>>

\* lines 453-477: analysis and adaptive_context are bound nowhere, so the
\* dict display raises NameError before reward_log.json is opened
RewardLog ==
    /\ pc = "reward"
    /\ pc' = "alog"
    /\ UNCHANGED <<env, loc, reviewFile, outFiles, histVars, metVars,
                   cacheVars, auxVars>>

\* lines 479-491
AdaptiveLogUpdate ==
    /\ pc = "alog"
    /\ outFiles' = [outFiles EXCEPT !.adaptive =
                      [kind |-> "dict",
                       n |-> Min(load_adaptive_log(outFiles.adaptive) + 1,
                                 ADAPTIVE_KEEP)]]
    /\ loc' = [loc EXCEPT !.steps = Append(@, "adaptive log")]
    /\ pc' = "adjust"
    /\ UNCHANGED <<env, reviewFile, histVars, metVars, cacheVars, auxVars>>

\* lines 493-509
Adjust ==
    /\ pc = "adjust"
    /\ IF loc.band = "low"
       THEN /\ UpdateHistoryReviewer(env.pr_number \o "_selfcal", loc.title \o " (selfcal)", loc.category, Max(loc.priority_score, 90), TRUE, "", NoneVal, "none", "none")
            /\ loc' = [loc EXCEPT !.adjust_note = "low"]
       ELSE /\ loc' = [loc EXCEPT !.adjust_note = loc.band]
            /\ UNCHANGED histVars
    /\ pc' = "metadata"
    /\ UNCHANGED <<env, reviewFile, outFiles, metVars, cacheVars, auxVars>>

\* lines 511-512
SaveMetadata ==
    /\ pc = "metadata"
    /\ outFiles' = [outFiles EXCEPT !.metadata = "success"]
    /\ pc' = "comment"
    /\ UNCHANGED <<env, loc, reviewFile, histVars, metVars, cacheVars, auxVars>>

\* lines 514-528: the post answers 201, answers another status, or raises
PostCommentWith(answers) ==
    /\ pc = "comment"
    /\ \E r \in answers :
          loc' = [loc EXCEPT !.posted = (r = "201"), !.outcome = "complete"]
    /\ pc' = "done"
    /\ UNCHANGED <<env, reviewFile, outFiles, histVars, metVars, cacheVars, auxVars>>

PostComment == PostCommentWith({"201", "other", "exception"})

\* the process ends; the next workflow run starts main afresh
NextRun ==
    /\ pc = "done"
    /\ clock <= MaxRunClock
    /\ pc' = "idle"
    /\ env' = NoEnv
    /\ loc' = [NoLoc EXCEPT !.after_selfcal =
                  (loc.outcome = "complete" /\ loc.band = "low")]
    /\ UNCHANGED <<reviewFile, outFiles, histVars, metVars, cacheVars, auxVars>>

NoSummary == [kind |-> "missing", metrics |-> EmptyMetrics]

HistInit ==
    /\ histFile = Missing
    /\ tmpFile = "missing"
    /\ summaryFile = NoSummary
    /\ clock = 0
    /\ call = NoCall

NoResult == [by |-> "none", m |-> EmptyMetrics]

MetIdle == mIn = <<>> /\ mOut = NoResult

Init == HistInit /\ MetIdle /\ CacheIdle /\ MainIdle /\ AuxIdle

\* the history store with every save going through
HistNext ==
    \/ ReviewerUpdate(PRs, {"none"}, {"none"}, MaxClock)
    \/ MemoryUpdate(PRs, {"none"}, {"none"}, {TRUE}, MaxClock)

Next == HistNext /\ UNCHANGED <<metVars, cacheVars, mainVars, auxVars>>

Spec == Init /\ [][Next]_vars

\* the history store with saves that may fail and with replace_duplicate
\* either way
SaveNext ==
    \/ ReviewerUpdate(SavePRs, SaveFailures, SummaryFailures, MaxSaveClock)
    \/ MemoryUpdate(SavePRs, SaveFailures, SummaryFailures, BOOLEAN,
                    MaxSaveClock)

NextSave == SaveNext /\ UNCHANGED <<metVars, cacheVars, mainVars, auxVars>>

SpecSave == Init /\ [][NextSave]_vars

\* a history file as another tool, an earlier version or a crash may have
\* left it
SampleEntry ==
    [pr_number |-> "1", title |-> "T", category |-> "bug fix",
     priority_score |-> <<50>>, high_risk |-> FALSE,
     content_hash |-> compute_hash("diffA"), timestamp |-> 0,
     meta |-> Absent]

AnyHistoryFile ==
    {Missing, PartialFile}
    \cup {[kind |-> k, entries |-> <<>>] : k \in {"garbage", "scalar"}}
    \cup {[kind |-> k, entries |-> es] :
            k \in {"obj", "objentries", "list"},
            es \in {<<>>, <<SampleEntry>>}}

LoadInit ==
    /\ histFile \in AnyHistoryFile
    /\ tmpFile = "missing"
    /\ summaryFile = NoSummary
    /\ clock = 1
    /\ call = NoCall
    /\ MetIdle
    /\ CacheIdle
    /\ MainIdle
    /\ AuxIdle

LoadNext ==
    \/ LoadReviewer
    \/ LoadMemory
    \/ ReviewerUpdate(SavePRs, SaveFailures, {"none"}, MaxLoadClock)
    \/ MemoryUpdate(SavePRs, SaveFailures, {"none"}, {TRUE}, MaxLoadClock)

NextLoad == LoadNext /\ UNCHANGED <<metVars, cacheVars, mainVars, auxVars>>

SpecLoad == LoadInit /\ [][NextLoad]_vars

-----------------------------------------------------------------------------
(* The metric functions on arbitrary histories *)

MetricPriorities == {<<>>, <<0>>, <<1>>, <<3>>}
MetricCategories == {"bug fix", Absent}

MetricEntry(p, c, h) == [priority_score |-> p, category |-> c, high_risk |-> h]

ListsOver(S, n) == UNION {[1..k -> S] : k \in 0..n}

\* short histories whose entries vary in every field the metrics read, and
\* histories two windows long whose entries vary in their score
MetricInputs ==
    ListsOver({MetricEntry(p, c, h) : p \in MetricPriorities,
                  c \in MetricCategories, h \in BOOLEAN}, MaxMetricLen)
    \cup ListsOver({MetricEntry(p, "bug fix", FALSE) : p \in MetricPriorities},
                   2 * WINDOW_MEMORY)

MetricsInit ==
    /\ HistInit
    /\ mIn \in MetricInputs
    /\ mOut = NoResult
    /\ CacheIdle
    /\ MainIdle
    /\ AuxIdle

\* review_memory.compute_metrics(mIn)
ComputeMemory ==
    /\ mOut = NoResult
    /\ mOut' = [by |-> "memory", m |-> compute_metrics(mIn)]
    /\ UNCHANGED <<mIn, histFile, tmpFile, summaryFile, clock, call, cacheVars,
                   mainVars, auxVars>>

\* reviewer.compute_history_metrics(mIn)
ComputeReviewer ==
    /\ mOut = NoResult
    /\ mOut' = [by |-> "reviewer", m |-> compute_history_metrics(mIn)]
    /\ UNCHANGED <<mIn, histFile, tmpFile, summaryFile, clock, call, cacheVars,
                   mainVars, auxVars>>

NextMetrics == ComputeMemory \/ ComputeReviewer

SpecMetrics == MetricsInit /\ [][NextMetrics]_vars

NextCache ==
    (Request \/ NewProcess)
      /\ UNCHANGED <<histFile, tmpFile, summaryFile, clock, call, metVars,
                     mainVars, auxVars>>

InitCache == HistInit /\ MetIdle /\ CacheInit /\ MainIdle /\ AuxIdle

SpecCache == InitCache /\ [][NextCache]_vars

\* what an earlier run may have left: nothing, or its artifacts
MainHistoryFiles == {Missing, ListFile(<<SampleEntry>>)}
MainReviewFiles == {NoReview, [kind |-> "complete", text |-> "live"]}
MainAdaptiveFiles ==
    {[kind |-> "missing", n |-> 0], [kind |-> "list", n |-> 0],
     [kind |-> "dict", n |-> ADAPTIVE_KEEP]}

InitMain ==
    /\ histFile \in MainHistoryFiles
    /\ tmpFile = "missing"
    /\ summaryFile = NoSummary
    /\ clock = 1
    /\ call = NoCall
    /\ MetIdle
    /\ CacheIdle
    /\ AuxIdle
    /\ pc = "idle"
    /\ env = NoEnv
    /\ loc = NoLoc
    /\ reviewFile \in MainReviewFiles
    /\ \E a \in MainAdaptiveFiles : outFiles = [NoOutFiles EXCEPT !.adaptive = a]

NextMain ==
    \/ MainStart
    \/ FetchPR
    \/ ReadDiff
    \/ DeriveAdaptive
    \/ MakeClient
    \/ RetryAttempt
    \/ SelfEval
    \/ WriteReview
    \/ RecordHistory
    \/ RewardLog
    \/ AdaptiveLogUpdate
    \/ Adjust
    \/ SaveMetadata
    \/ PostComment

SpecMain == InitMain /\ [][NextMain]_vars

\* main is one sequential run: every statement is reached in turn, the
\* requests carry timeouts and the sleeps between attempts are finite
FairSpecMain == InitMain /\ [][NextMain]_vars /\ WF_vars(NextMain)

\* successive runs of main on one checkout: live reviews of two pull
\* requests, the self-evaluation scoring low or normal
NextRuns ==
    \/ MainStartWith({"owner/repo"}, {"1", "2"}, {"tok"}, {"key"}, {TRUE}, {"diffA", "diffLong"})
    \/ FetchPRWith({"exception"})
    \/ ReadDiff
    \/ DeriveAdaptive
    \/ MakeClient
    \/ RetryAttemptWith({Completion("live"), Raises("other")})
    \/ SelfEvalWith({"low", "normal"})
    \/ WriteReviewWith({"none"})
    \/ RecordHistory
    \/ RewardLog
    \/ AdaptiveLogUpdate
    \/ Adjust
    \/ SaveMetadata
    \/ PostCommentWith({"exception"})
    \/ NextRun

SpecRuns == Init /\ [][NextRuns]_vars

-----------------------------------------------------------------------------
(* The retry loops: reviewer.request_with_retry, self_improvement.run_openai *)

\* the call as main makes it: a client exists only when OpenAI was imported
\* (reviewer.py 381, self_improvement.py 309)
RetryCall ==
    /\ rt.status \in {"idle", "returned"}
    /\ \E fn \in RetryFunctions, imported \in BOOLEAN, client \in BOOLEAN,
          max_retries \in 0..MaxRetriesArg :
          /\ client => imported
          /\ rt' = [status |-> IF client /\ max_retries >= 1
                               THEN "running" ELSE "returned",
                    fn |-> fn, imported |-> imported, client |-> client,
                    max_retries |-> max_retries,
                    attempt |-> IF client /\ max_retries >= 1 THEN 1 ELSE 0,
                    outs |-> <<>>, ret |-> NoneVal]
    /\ UNCHANGED <<histVars, metVars, cacheVars, mainVars, evo, fIn, fOut>>

\* one pass of "for attempt in range(1, max_retries + 1)"
RetryStep ==
    /\ rt.status = "running"
    /\ \E o \in CallOutcomes :
          IF o.kind = "completion"
          THEN rt' = [rt EXCEPT !.outs = Append(@, o), !.ret = o.what,
                                !.status = "returned"]
          ELSE IF ExceptClause(rt.imported, o.what) = "Exception"
               THEN rt' = [rt EXCEPT !.outs = Append(@, o),
                                     !.status = "returned"]
          ELSE IF rt.attempt < rt.max_retries
               THEN rt' = [rt EXCEPT !.outs = Append(@, o),
                                     !.attempt = @ + 1]
          ELSE rt' = [rt EXCEPT !.outs = Append(@, o),
                                !.status = "returned"]
    /\ UNCHANGED <<histVars, metVars, cacheVars, mainVars, evo, fIn, fOut>>

NextRetry == RetryCall \/ RetryStep

\* the loop body neither blocks for ever (the call carries a timeout, the
\* sleeps are finite) nor is it interleaved with anything else
FairSpecRetry == Init /\ [][NextRetry]_vars /\ WF_vars(RetryStep)

-----------------------------------------------------------------------------
(* self_evolve.py *)

\* dict.get(k, default)
DictGet(d, k, default) == IF k \in d.keys THEN d.val[k] ELSE default

\* priorities are whole numbers here, so round(delta, 2) is delta itself
evolution_summary(old, new, now) ==
    LET prev_score == DictGet(old, "avg_priority", 0)
        curr_score == DictGet(new, "avg_priority", 0)
        delta == IF prev_score # 0 THEN curr_score - prev_score ELSE 0
    IN [keys |-> {"prev_avg_priority", "new_avg_priority", "delta_priority",
                  "timestamp"},
        val |-> [k \in EvoKeys |->
                   IF k = "prev_avg_priority" THEN prev_score
                   ELSE IF k = "new_avg_priority" THEN curr_score
                   ELSE IF k = "delta_priority" THEN delta
                   ELSE IF k = "timestamp" THEN now
                   ELSE 0]]

\* the colour of the badge
make_badge(delta) ==
    IF delta > 0 THEN "brightgreen" ELSE IF delta = 0 THEN "orange" ELSE "red"

\* a dashboard generator rewrites dashboard_summary.json
GenerateDashboard ==
    /\ \E p \in {0, 40, 55, 70} :
          evo' = [evo EXCEPT !.summary =
                    [keys |-> {"avg_priority"},
                     val |-> [k \in EvoKeys |-> IF k = "avg_priority" THEN p ELSE 0]]]
    /\ UNCHANGED <<histVars, metVars, cacheVars, mainVars, rt, fIn, fOut>>

\* self_evolve.main
EvolveMain ==
    /\ Len(evo.seen) < MaxEvolveRuns
    /\ IF evo.summary.keys = {}
       THEN UNCHANGED evo
       ELSE \E combined \in {evolution_summary(evo.state, evo.summary, Len(evo.seen) + 1)} :
              evo' = [evo EXCEPT
                        !.state = combined,
                        !.badge = make_badge(combined.val["delta_priority"]),
                        !.report = "written",
                        !.seen = Append(@, DictGet(evo.summary, "avg_priority", 0))]
    /\ UNCHANGED <<histVars, metVars, cacheVars, mainVars, rt, fIn, fOut>>

NextEvolve == GenerateDashboard \/ EvolveMain

SpecEvolve == Init /\ [][NextEvolve]_vars

-----------------------------------------------------------------------------
(* The pure functions, each called once on an input of its domain *)

\* reviewer.analyze_adaptive_settings(history_entries), the entries with no
\* numeric priority or with one on either side of 35 and of 70
AnalyzeCall ==
    /\ fIn = NoFn
    /\ \E h \in ListsOver({[priority_score |-> p, high_risk |-> r] :
                             p \in {<<>>, <<0>>, <<34>>, <<36>>, <<70>>, <<104>>},
                             r \in BOOLEAN}, MaxAnalyzeLen) :
          /\ fIn' = [fn |-> "analyze", history |-> h]
          /\ fOut' = [fn |-> "analyze", ret |-> AnalyzeOver(h, ANALYZE_SLICE)]
    /\ UNCHANGED <<histVars, metVars, cacheVars, mainVars, rt, evo>>

\* ---- network_fusion.fuse ----
\* A JSON value is [t, n, s]: a number n ten-thousandths (t = "num"), a
\* string s (t = "str") or null (t = "none"). A JSON object is a function
\* from its keys to values.
Num(n) == [t |-> "num", n |-> n, s |-> ""]
Str(x) == [t |-> "str", n |-> 0, s |-> x]
Null == [t |-> "none", n |-> 0, s |-> ""]

\* network_fusion.py:26 round(..., 4): ten-thousandths
FUSION_UNIT == 10000

\* adding the fractions f and g: the carry out of bit j is 1 when some bit
\* k >= j has both bits set and every bit between passes a carry on
CarryOut(f, g, j) ==
    \E k \in j..Max(Len(f), Len(g)) :
        /\ BitAt(f, k) + BitAt(g, k) = 2
        /\ \A m \in j..(k - 1) : BitAt(f, m) + BitAt(g, m) = 1

\* x + y, rounded to nearest
AddFloat(x, y) ==
    LET carry(j) == IF CarryOut(x.f, y.f, j) THEN 1 ELSE 0
        bits == [j \in 1..Max(Len(x.f), Len(y.f)) |->
                   (BitAt(x.f, j) + BitAt(y.f, j) + carry(j + 1)) % 2]
    IN  IF x.i + y.i + carry(1) = 0 THEN [i |-> 0, f |-> bits]
        ELSE RoundDouble(x.i + y.i + carry(1), bits)

\* x / 2.0
Halve(x) == [i |-> x.i \div 2, f |-> <<x.i % 2>> \o x.f]

\* the first n bits of r/b (0 <= r < b) and the remainder left, eight bits
\* at a time
RECURSIVE RatBits(_, _, _)
RatBits(r, b, n) ==
    IF n = 0 THEN [bits |-> <<>>, rem |-> r]
    ELSE LET m == Min(n, 8)
             chunk == (r * 2^m) \div b
             rest == RatBits((r * 2^m) % b, b, n - m)
         IN  [bits |-> [j \in 1..m |-> (chunk \div 2^(m - j)) % 2] \o rest.bits,
              rem |-> rest.rem]

\* the double x against the fraction a/b, exactly: "<", "=" or ">"
CompareRational(x, a, b) ==
    LET q == RatBits(a % b, b, Len(x.f))
        m == [i |-> a \div b, f |-> q.bits]
    IN  IF FloatLess(x, m) THEN "<"
        ELSE IF FloatLess(m, x) THEN ">"
        ELSE IF q.rem > 0 THEN "<" ELSE "="

\* how many times 1/unit goes into x, rounded down; near is within 2 of
\* the result
FloorPlaces(x, near, unit) ==
    CHOOSE k \in (near - 3)..(near + 3) :
        /\ CompareRational(x, k, unit) # "<"
        /\ CompareRational(x, k + 1, unit) = "<"

\* round(x, places) for unit = 10^places, in multiples of 1/unit: the
\* nearest one, an exact tie going to the even one
RoundPlaces(x, near, unit) ==
    LET lo == FloorPlaces(x, near, unit)
        half == CompareRational(x, 2 * lo + 1, 2 * unit)
    IN  IF half = "<" THEN lo
        ELSE IF half = ">" THEN lo + 1
        ELSE IF lo % 2 = 0 THEN lo ELSE lo + 1

\* dict.get(k)
JsonGet(d, k) == IF k \in DOMAIN d THEN d[k] ELSE Null

FuseMutantGlobalFirst(local, global_) == [k \in DOMAIN local \cup DOMAIN global_ |-> IF JsonGet(local, k).t = "num" /\ JsonGet(global_, k).t = "num" THEN Num(RoundPlaces(Halve(AddFloat(FromRational(local[k].n, FUSION_UNIT), FromRational(global_[k].n, FUSION_UNIT))), (local[k].n + global_[k].n) \div 2, FUSION_UNIT)) ELSE IF k \in DOMAIN global_ THEN global_[k] ELSE local[k]]
\* network_fusion.fuse
fuse(local, global_) ==
    [k \in DOMAIN local \cup DOMAIN global_ |->
        LET lv == JsonGet(local, k)
            gv == JsonGet(global_, k)
        IN  IF lv.t = "num" /\ gv.t = "num"
            THEN Num(RoundPlaces(
                       Halve(AddFloat(FromRational(lv.n, FUSION_UNIT),
                                      FromRational(gv.n, FUSION_UNIT))),
                       (lv.n + gv.n) \div 2, FUSION_UNIT))
            ELSE IF k \in DOMAIN local THEN local[k] ELSE global_[k]]

\* fuse(local, global_) on the objects over the keys of the default weights
\* (line 36), the values being weights around 1.0 with up to four decimals,
\* a string or null
FuseCall ==
    /\ fIn = NoFn
    /\ LET values == {Num(n) : n \in {9999, 10000, 10001, 12346}}
                         \cup {Str("fused"), Null}
           objects == UNION {[ks -> values] :
                               ks \in SUBSET {"depth_multiplier", "security_bias"}}
       IN  \E local \in objects, global_ \in objects :
              /\ fIn' = [fn |-> "fuse", local |-> local, global_ |-> global_]
              /\ fOut' = [fn |-> "fuse", ret |-> fuse(local, global_)]
    /\ UNCHANGED <<histVars, metVars, cacheVars, mainVars, rt, evo>>

\* ---- network_aggregator.merge_weights ----
\* network_aggregator.py:137 round(..., 3): thousandths
MERGE_UNIT == 1000

\* the baseline of lines 117-125
Baseline ==
    [k \in {"clarity", "depth", "risk_awareness", "actionability",
            "consistency", "confidence", "last_updated"} |->
        IF k = "last_updated" THEN Str("now") ELSE Num(FUSION_UNIT)]

\* [w[k] for w in weights_list if isinstance(w.get(k), (int, float))]
RECURSIVE NumericVals(_, _)
NumericVals(weights_list, k) ==
    IF weights_list = <<>> THEN <<>>
    ELSE (IF JsonGet(Head(weights_list), k).t = "num"
          THEN <<Head(weights_list)[k].n>> ELSE <<>>)
         \o NumericVals(Tail(weights_list), k)

\* statistics.mean of one or two doubles given in ten-thousandths
MeanOfVals(vals) ==
    IF Len(vals) = 1 THEN FromRational(vals[1], FUSION_UNIT)
    ELSE Halve(AddFloat(FromRational(vals[1], FUSION_UNIT),
                        FromRational(vals[2], FUSION_UNIT)))

MergeMutantFirst(weights_list) == IF weights_list = <<>> THEN Baseline ELSE [k \in {k \in UNION {DOMAIN weights_list[i] : i \in 1..Len(weights_list)} : NumericVals(weights_list, k) # <<>>} \cup {"last_updated"} |-> IF k = "last_updated" THEN Str("now") ELSE Num(10 * RoundPlaces(MeanOfVals(<<NumericVals(weights_list, k)[1]>>), NumericVals(weights_list, k)[1] \div 10, MERGE_UNIT))]
\* network_aggregator.merge_weights, for at most two weight maps
merge_weights(weights_list) ==
    IF weights_list = <<>> THEN Baseline
    ELSE LET keys == {k \in UNION {DOMAIN weights_list[i] : i \in 1..Len(weights_list)} :
                         NumericVals(weights_list, k) # <<>>}
         IN  [k \in keys \cup {"last_updated"} |->
                 IF k = "last_updated" THEN Str("now")
                 ELSE LET vals == NumericVals(weights_list, k)
                      IN  Num(10 * RoundPlaces(MeanOfVals(vals),
                                               (SumSeq(vals) \div Len(vals)) \div 10,
                                               MERGE_UNIT))]

\* merge_weights(weights_list) on no weight map, one, or two; the values
\* are weights with three and four decimals, a timestamp or null
MergeCall ==
    /\ fIn = NoFn
    /\ LET values == {Num(n) : n \in {10000, 10004, 10005, 10020}}
                         \cup {Str("now"), Null}
           objects == UNION {[ks -> values] :
                               ks \in SUBSET {"clarity", "last_updated"}}
       IN  \E weights_list \in {<<>>} \cup {<<w>> : w \in objects}
                                  \cup {<<v, w>> : v \in objects, w \in objects} :
              /\ fIn' = [fn |-> "merge", weights_list |-> weights_list]
              /\ fOut' = [fn |-> "merge", ret |-> merge_weights(weights_list)]
    /\ UNCHANGED <<histVars, metVars, cacheVars, mainVars, rt, evo>>

NextPure ==
    \/ AnalyzeCall
    \/ FuseCall
    \/ MergeCall

SpecPure == Init /\ [][NextPure]_vars

-----------------------------------------------------------------------------
(* The scripts that read review_history.json *)

\* what a script got from the file: the entries it went on to use, and
\* whether it ended with an uncaught exception
Got(entries) == [loaded |-> entries, raised |-> FALSE]
Failed == [loaded |-> <<>>, raised |-> TRUE]

\* pr_learning.run: load_history gives [] for a missing or unparsable file
\* and the parsed value otherwise; compute_weights slices it
\* (entries[-50:]), which raises TypeError on an object and on a scalar
\* other than a falsy one
pr_learning(f) ==
    IF ~Parses(f) THEN Got(<<>>)
    ELSE IF f.kind = "list" THEN Got(f.entries)
    ELSE Failed

\* reviewer_confidence.main: the same load_history; calibrate iterates the
\* value and calls e.get on each element, which raises on the keys of an
\* object and on a scalar
reviewer_confidence(f) ==
    IF ~Parses(f) THEN Got(<<>>)
    ELSE IF f.kind = "list" THEN Got(f.entries)
    ELSE Failed

\* self_improvement.main: safe_load(HISTORY_PATH) or [], then
\* aggregate_history_metrics slices it (history[-MAX_HISTORY_WINDOW:]),
\* which raises on an object and on a scalar other than a falsy one
self_improvement(f) ==
    IF ~Parses(f) THEN Got(<<>>)
    ELSE IF f.kind = "list" THEN Got(f.entries)
    ELSE Failed

\* network_aggregator.aggregate_metrics: a list is taken as the entries, an
\* object gives data.get("reviews", []) (neither kind of object of this
\* model has that key), anything else gives []
network_aggregator(f) ==
    IF Parses(f) /\ f.kind = "list" THEN Got(f.entries) ELSE Got(<<>>)

\* continuous_learning (module level): load_json_safe returns the default
\* {"reviews": []} only when open or json.load raises, and the parsed value
\* otherwise; review_history.get('reviews', []) then needs an object
continuous_learning(f) ==
    IF ~Parses(f) THEN Got(<<>>)
    ELSE IF f.kind \in {"obj", "objentries"} THEN Got(<<>>)
    ELSE Failed

\* one run of a script on the history file as it stands
ReaderRun(script, got) ==
    /\ call' = [NoCall EXCEPT !.op = "read", !.mod = script,
                              !.loaded = got.loaded, !.raised = got.raised]
    /\ UNCHANGED <<histFile, tmpFile, summaryFile, clock>>

\* reviewer.update_history writes the history; the five scripts read it
NextReaders ==
    /\ \/ ReviewerUpdate(PRs, {"none"}, {"none"}, MaxReadClock)
       \/ ReaderRun("pr_learning", pr_learning(histFile))
       \/ ReaderRun("reviewer_confidence", reviewer_confidence(histFile))
       \/ ReaderRun("self_improvement", self_improvement(histFile))
       \/ ReaderRun("network_aggregator", network_aggregator(histFile))
       \/ ReaderRun("continuous_learning", continuous_learning(histFile))
    /\ UNCHANGED <<metVars, cacheVars, mainVars, auxVars>>

SpecReaders == Init /\ [][NextReaders]_vars

-----------------------------------------------------------------------------
(* Properties of the history store *)

\* the last n elements of s (all of s when it is shorter)
LastOf(s, n) == SubSeq(s, Len(s) - Min(n, Len(s)) + 1, Len(s))

BoundOf(mod) == IF mod = "reviewer" THEN MAX_HISTORY ELSE MAX_ENTRIES

\* e is a duplicate of the new entry n: same non-null PR number, or same hash
Matches(e, n) ==
    \/ (Truthy(n.pr_number) /\ e.pr_number = n.pr_number)
    \/ e.content_hash = n.content_hash

\* the list the last update call held before trimming, rebuilt from what
\* it loaded, the entry it built and the index it reported
Untrimmed ==
    IF call.dup_idx = 0 THEN call.loaded \o <<call.entry>>
    ELSE IF call.log = "not replaced" THEN call.loaded
    ELSE [i \in 1..Len(call.loaded) |->
            IF i = call.dup_idx THEN call.entry ELSE call.loaded[i]]

\* C2: the persisted history never holds more than the bound of the module
\* that wrote it (MAX_HISTORY for reviewer.py, max_entries for
\* review_memory.py), and what a call persists is exactly the last entries
\* of the list it held: only the oldest positions are dropped.
C2_BoundedKeepsLast ==
    /\ Len(histFile.entries) <= Max(MAX_HISTORY, MAX_ENTRIES)
    /\ (call.op = "update" /\ call.saved) =>
          /\ Len(histFile.entries) <= BoundOf(call.mod)
          /\ histFile.entries = LastOf(Untrimmed, BoundOf(call.mod))

C2_Witness ==
    /\ call.op = "update" /\ call.saved /\ call.mod = "reviewer"
    /\ Len(Untrimmed) > MAX_HISTORY
    /\ Len(histFile.entries) = MAX_HISTORY

\* C3: no two entries of the persisted history have the same non-null
\* pr_number.
C3_NoDuplicatePrNumber ==
    \A i, j \in 1..Len(histFile.entries) :
        (i < j /\ Truthy(histFile.entries[i].pr_number)) =>
            histFile.entries[i].pr_number # histFile.entries[j].pr_number

\* C4: no two entries of the persisted history have the same content_hash
\* (and hence none the same (pr_number, content_hash) pair).
C4_NoDuplicateContentHash ==
    \A i, j \in 1..Len(histFile.entries) :
        i < j =>
            histFile.entries[i].content_hash # histFile.entries[j].content_hash

\* the consequence C4 draws: no two entries with the same pair
C4_NoDuplicatePair ==
    \A i, j \in 1..Len(histFile.entries) :
        i < j =>
            \/ histFile.entries[i].content_hash
                 # histFile.entries[j].content_hash
            \/ histFile.entries[i].pr_number # histFile.entries[j].pr_number

\* C5 as stated: an update only adds at the end; what was in the history
\* stays as it was, in order, except for the oldest entries dropped to
\* respect the bound.
C5_AppendOnly ==
    (call.op = "update" /\ call.saved) =>
        \E added \in {<<>>, <<call.entry>>} :
            histFile.entries = LastOf(call.loaded \o added, BoundOf(call.mod))

\* C5 amended: an update call changes the history in at most one place. If
\* an entry has the new entry's non-null PR number or its content hash, the
\* first such entry is replaced in place by the new entry (or left as it is
\* when replace_duplicate is off) and nothing is added; otherwise the new
\* entry is added at the end. Every other entry keeps its content and its
\* position, except that the oldest entries are dropped to respect the
\* bound. A call whose save fails leaves the file as it was.
C5_ReplaceInPlaceOrAppend ==
    call.op = "update" =>
        /\ call.dup_idx \in 0..Len(call.loaded)
        /\ call.dup_idx = 0 =>
              \A i \in 1..Len(call.loaded) :
                  ~Matches(call.loaded[i], call.entry)
        /\ call.dup_idx # 0 =>
              /\ Matches(call.loaded[call.dup_idx], call.entry)
              /\ \A i \in 1..(call.dup_idx - 1) :
                    ~Matches(call.loaded[i], call.entry)
        /\ call.saved =>
              LET b == BoundOf(call.mod)
                  n == Len(call.loaded)
                  post == histFile.entries
                  dropped == IF call.dup_idx = 0 THEN Max(n + 1 - b, 0)
                             ELSE Max(n - b, 0)
              IN  /\ Len(post) = (IF call.dup_idx = 0 THEN n + 1 ELSE n)
                                   - dropped
                  /\ \A i \in (dropped + 1)..n :
                        post[i - dropped] =
                            IF i = call.dup_idx /\ call.log = "replaced"
                            THEN call.entry ELSE call.loaded[i]
                  /\ call.dup_idx = 0 => post[Len(post)] = call.entry
        /\ ~call.saved => histFile.entries = call.loaded

C5_Witness ==
    /\ call.op = "update" /\ call.saved /\ call.log = "replaced"
    /\ call.dup_idx # 0 /\ call.dup_idx < Len(call.loaded)
    /\ call.loaded[call.dup_idx] # call.entry
    /\ Len(histFile.entries) = Len(call.loaded)

\* C8: a save that fails before the rename reports the failure instead of
\* raising and leaves the history file with its previous complete content;
\* the history file never holds partially written JSON (only the temporary
\* file may).
C8_SaveAtomic ==
    /\ histFile.kind \in {"missing", "list"}
    /\ (call.op = "update" /\ ~call.saved) =>
          /\ call.warned /\ ~call.raised
          /\ histFile.entries = call.loaded
    /\ (call.op = "update" /\ call.saved) =>
          /\ histFile.kind = "list" /\ tmpFile = "missing"

C8_Witness ==
    /\ call.op = "update" /\ ~call.saved /\ call.warned
    /\ tmpFile = "partial"
    /\ histFile.kind = "list" /\ histFile.entries # <<>>

Unusable(f) == f.kind \in {"missing", "garbage", "partial", "scalar", "obj"}

\* C9: load_history returns the empty list, without raising and without
\* touching any file, when the history file is missing, does not parse, or
\* parses to something that is neither a list nor an object with the key
\* 'entries'; an update_history that follows starts from the empty history,
\* so what it saves is the one new entry.
C9_LoadDefaultsToEmpty ==
    /\ []((call.op = "load" /\ Unusable(histFile)) =>
            (call.loaded = <<>> /\ ~call.raised))
    /\ [][/\ call'.op = "load" =>
               UNCHANGED <<histFile, tmpFile, summaryFile>>
          /\ (Unusable(histFile) /\ call'.op = "update") =>
               /\ call'.loaded = <<>> /\ call'.dup_idx = 0 /\ ~call'.raised
               /\ call'.saved => histFile' = ListFile(<<call'.entry>>)]_vars

C9_Witness ==
    /\ call.op = "load" /\ call.mod = "reviewer"
    /\ histFile.kind = "obj" /\ histFile.entries # <<>>
    /\ call.loaded = <<>>

\* C13: the persisted history is ordered oldest to newest: timestamps never
\* decrease along the list
C13_OrderedOldestFirst ==
    histFile.kind = "list" =>
        \A i \in 1..Len(histFile.entries), j \in 1..Len(histFile.entries) :
            i < j => histFile.entries[i].timestamp <= histFile.entries[j].timestamp

\* C21: a review_history.json written by reviewer.update_history is
\* accepted by every script that reads it: pr_learning,
\* reviewer_confidence, self_improvement, network_aggregator and
\* continuous_learning each obtain its entries without raising an error.
C21_ReadersAccept ==
    (call.op = "read" /\ histFile.kind = "list") =>
        /\ ~call.raised
        /\ call.loaded = histFile.entries

-----------------------------------------------------------------------------
(* Properties of the metric functions *)

RECURSIVE SumOver(_, _)
SumOver(f, S) ==
    IF S = {} THEN 0
    ELSE LET x == CHOOSE y \in S : TRUE IN f[x] + SumOver(f, S \ {x})

NumericAt(s) == {i \in 1..Len(s) : Len(s[i].priority_score) = 1}
RiskyAt(s) == {i \in 1..Len(s) : s[i].high_risk}
ScoreAt(s) == [i \in 1..Len(s) |->
                 IF i \in NumericAt(s) THEN s[i].priority_score[1] ELSE 0]

\* v is x/n given in hundredths and rounded to the nearest hundredth
NearestHundredth(v, x, n) ==
    /\ 2 * (v * n - 100 * x) <= n
    /\ 2 * (100 * x - v * n) <= n

\* C6: total_reviews is the number of entries; the per_category counts sum
\* to it; high_risk_count is between 0 and it, and risk_ratio is
\* high_risk_count / total_reviews as a percentage (two decimals) in
\* [0, 100]; avg_priority_score is None exactly when no entry has a numeric
\* priority_score; the empty history gives 0, None, {}, 0, 0, None.
C6_MetricsConsistent ==
    mOut.by # "none" =>
        LET m == mOut.m
            n == Len(mIn)
        IN  /\ m.total_reviews = n
            /\ SumOver(m.per_category, DOMAIN m.per_category) = n
            /\ \A c \in DOMAIN m.per_category : m.per_category[c] >= 1
            /\ m.high_risk_count = Cardinality(RiskyAt(mIn))
            /\ 0 <= m.high_risk_count /\ m.high_risk_count <= n
            /\ 0 <= m.risk_ratio /\ m.risk_ratio <= 100 * 100
            /\ n > 0 => NearestHundredth(m.risk_ratio,
                                         100 * m.high_risk_count, n)
            /\ (m.avg_priority_score = <<>>) <=> (NumericAt(mIn) = {})
            /\ NumericAt(mIn) # {} =>
                  NearestHundredth(m.avg_priority_score[1],
                      SumOver(ScoreAt(mIn), NumericAt(mIn)),
                      Cardinality(NumericAt(mIn)))
            /\ n = 0 =>
                  /\ m.total_reviews = 0 /\ m.avg_priority_score = <<>>
                  /\ DOMAIN m.per_category = {} /\ m.high_risk_count = 0
                  /\ m.risk_ratio = 0 /\ m.recent_trend = NoneVal

C6_Witness ==
    /\ mOut.by # "none"
    /\ Len(mIn) = 3
    /\ Cardinality(DOMAIN mOut.m.per_category) = 2
    /\ "uncategorized" \in DOMAIN mOut.m.per_category
    /\ mOut.m.high_risk_count = 1 /\ mOut.m.risk_ratio = 3333
    /\ mOut.m.avg_priority_score = <<>>

\* the window of the function that produced mOut
WindowOf(by) == IF by = "memory" THEN WINDOW_MEMORY ELSE WINDOW_REVIEWER

\* numeric entries among the last w, and among the w before those
RecentAt(s, w) == {i \in NumericAt(s) : i > Len(s) - w}
PrevAt(s, w) == {i \in NumericAt(s) : i > Len(s) - 2 * w /\ i <= Len(s) - w}

\* (mean over A) - (mean over B) > d, on exact fractions
MeanExceeds(s, A, B, d) ==
    SumOver(ScoreAt(s), A) * Cardinality(B)
        > SumOver(ScoreAt(s), B) * Cardinality(A)
            + d * Cardinality(A) * Cardinality(B)

\* C7: recent_trend is None unless both the last W entries and the W
\* entries before them hold a numeric priority_score; otherwise it is
\* 'improving' when the recent mean exceeds the previous mean by more than
\* 2, 'declining' when it is lower by more than 2, and 'stable' otherwise.
C7_TrendClassification ==
    mOut.by # "none" =>
        LET w == WindowOf(mOut.by)
            R == RecentAt(mIn, w)
            P == PrevAt(mIn, w)
            t == mOut.m.recent_trend
        IN  IF R = {} \/ P = {} THEN t = NoneVal
            ELSE IF MeanExceeds(mIn, R, P, 2) THEN t = "improving"
            ELSE IF MeanExceeds(mIn, P, R, 2) THEN t = "declining"
            ELSE t = "stable"

\* C22: for every history the two metric functions return the same
\* total_reviews, avg_priority_score, per_category, high_risk_count,
\* risk_ratio and recent_trend: the metrics one of them has computed are
\* the metrics the other computes from the same history.
C22_ImplementationsAgree ==
    /\ mOut.by = "memory" => mOut.m = compute_history_metrics(mIn)
    /\ mOut.by = "reviewer" => mOut.m = compute_metrics(mIn)

-----------------------------------------------------------------------------
(* Properties of the response cache *)

\* the cache file holds a response that answered prompt p
HoldsResponseFor(p) ==
    /\ cacheFile.kind = "dict"
    /\ \E k \in DOMAIN cacheFile.map : cacheFile.map[k].prompt = p

\* C10: a call that obtains no live response returns the text an earlier
\* successful call stored for the same messages; it returns None only when
\* the cache holds no response for them.
C10_FallsBackToCache ==
    (oaCall.op = "request" /\ ~oaCall.live /\ HoldsResponseFor(oaCall.prompt))
        => /\ oaCall.ret # NoneVal
           /\ \E k \in DOMAIN cacheFile.map :
                 /\ cacheFile.map[k].prompt = oaCall.prompt
                 /\ cacheFile.map[k].text = oaCall.ret

\* the same within one interpreter: the stored response is found again
C10_SameProcessHit ==
    (oaCall.op = "request" /\ ~oaCall.live
       /\ cacheFile.kind = "dict"
       /\ PromptHash(hashSeed, oaCall.prompt) \in DOMAIN cacheFile.map)
        => oaCall.ret = cacheFile.map[PromptHash(hashSeed, oaCall.prompt)].text

-----------------------------------------------------------------------------
(* Properties of reviewer.main *)

\* main started with the three variables set and a non-empty diff
MainPrecondition ==
    /\ pc # "idle"
    /\ Truthy(env.repo) /\ Truthy(env.pr_number) /\ Truthy(env.token)
    /\ read_diff(env.diff) # ""

\* ai_review.md exists and holds a non-empty review text
ReviewExists == reviewFile.kind # "missing" /\ Truthy(reviewFile.text)

C14_PriorityInRange ==
    /\ loc.priority_score \in 0..100
    /\ loc.high_risk => loc.priority_score >= 80
    /\ histFile.kind = "list" =>
          \A i \in 1..Len(histFile.entries) :
              histFile.entries[i].priority_score \in
                  {<<>>} \cup {<<p>> : p \in 0..100}

\* C15: every run of main that completes has left reward_log.json as a JSON
\* list of at most 100 records, the last one being the record of that run
C15_RewardLogged ==
    (pc = "done" /\ loc.outcome = "complete") => outFiles.reward = "list"

\* the steps of the run that have been attempted so far
Attempted == {loc.steps[i] : i \in 1..Len(loc.steps)}

\* what a step of main may do, by where the run stands
OrderedStep ==
    /\ (loc'.outcome = "fatal" /\ loc.outcome # "fatal") =>
          /\ pc = "idle"
          /\ UNCHANGED <<reviewFile, outFiles, histFile, tmpFile, summaryFile>>
    /\ (loc'.outcome = "no diff" /\ loc.outcome # "no diff") =>
          /\ pc = "diff"
          /\ outFiles'.metadata = "failure"
    /\ pc \in {"idle", "fetch", "diff"} =>
          /\ UNCHANGED <<reviewFile, histFile, tmpFile, summaryFile>>
          /\ outFiles'.adaptive = outFiles.adaptive
    /\ (outFiles'.metadata = "success" /\ outFiles.metadata # "success") =>
          {"review file", "self-evaluation", "history", "adaptive log"}
              \subseteq Attempted

\* C18: main records its outcome in order. A run that lacks a required
\* environment variable ends at its first step and writes no artifact; a
\* run without a diff ends by writing success = false to
\* review_metadata.json, and no step up to there changes the history or the
\* adaptive log; success = true is written only after the review file, the
\* self-evaluation, the history update and the adaptive-log update have
\* been attempted
C18_OutcomeInOrder ==
    /\ [](loc.outcome \in {"fatal", "no diff"} => pc = "done")
    /\ [][OrderedStep]_vars

\* a run whose write of ai_review.md failed and which then recorded success
C18_Witness ==
    /\ outFiles.metadata = "success"
    /\ ~loc.wrote
    /\ loc.steps = <<"self-evaluation", "review file", "history", "adaptive log">>

\* C12: when a completed run scored its own review below 0.75, the next
\* run's analyze_adaptive_settings does not select caution level low
C12_SelfcalRaisesCaution == loc.after_selfcal => loc.caution # "low"

-----------------------------------------------------------------------------
(* Properties of the pure functions *)

\* the mean of the numeric priorities of s is below limit, in exact
\* arithmetic; the mean counts as 0 when no priority is numeric
MeanBelow(s, limit) ==
    IF Scores(s) = <<>> THEN 0 < limit
    ELSE SumSeq(Scores(s)) < limit * Len(Scores(s))

NoneRisky(s) == \A i \in 1..Len(s) : ~s[i].high_risk

\* C17: analyze_adaptive_settings depends only on the last 12 entries; an
\* empty history gives neutral/standard/normal; otherwise concise/light/low
\* exactly when the mean numeric priority of those entries is below 35 and
\* none is high-risk, cautious/deep/high exactly when the mean is at least
\* 70, and balanced/standard/normal in every other case
C17_AnalyzeClassifies ==
    fOut.fn = "analyze" =>
        LET recent == LastOf(fIn.history, ANALYZE_SLICE)
        IN  IF fIn.history = <<>>
            THEN fOut.ret = Setting("neutral", "standard", "normal")
            ELSE /\ fOut.ret = Setting("concise", "light", "low")
                      <=> (MeanBelow(recent, 35) /\ NoneRisky(recent))
                 /\ fOut.ret = Setting("cautious", "deep", "high")
                      <=> ~MeanBelow(recent, 70)
                 /\ fOut.ret = Setting("balanced", "standard", "normal")
                      <=> (MeanBelow(recent, 70)
                           /\ ~(MeanBelow(recent, 35) /\ NoneRisky(recent)))

\* a history longer than the slice whose oldest entry is high-risk with a
\* high priority, while the entries of the slice average 17 and none of
\* them is high-risk
C17_Witness ==
    /\ fOut.fn = "analyze"
    /\ Len(fIn.history) > ANALYZE_SLICE
    /\ fIn.history[1].high_risk /\ fIn.history[1].priority_score = <<104>>
    /\ Scores(LastOf(fIn.history, ANALYZE_SLICE)) = <<0, 34>>
    /\ fOut.ret = Setting("concise", "light", "low")

\* the key set of the result is the union of the key sets, and a key that
\* is not numeric in both inputs keeps the local value if local has the
\* key and the global value otherwise
FuseKeysAndCopies ==
    /\ DOMAIN fOut.ret = DOMAIN fIn.local \cup DOMAIN fIn.global_
    /\ \A k \in DOMAIN fOut.ret :
          ~(JsonGet(fIn.local, k).t = "num" /\ JsonGet(fIn.global_, k).t = "num") =>
              fOut.ret[k] = IF k \in DOMAIN fIn.local THEN fIn.local[k]
                            ELSE fIn.global_[k]

BothNumeric(k) ==
    /\ k \in DOMAIN fIn.local \cap DOMAIN fIn.global_
    /\ fIn.local[k].t = "num" /\ fIn.global_[k].t = "num"

\* C19 as stated: the fused value of a key numeric in both inputs is the
\* arithmetic mean of the two values; the other keys are copied, local
\* first; fuse(w, w) = w for a numeric map w
C19_FuseIsMean ==
    fOut.fn = "fuse" =>
        /\ FuseKeysAndCopies
        /\ \A k \in DOMAIN fOut.ret :
              BothNumeric(k) =>
                  /\ fOut.ret[k].t = "num"
                  /\ 2 * fOut.ret[k].n = fIn.local[k].n + fIn.global_[k].n
        /\ (fIn.local = fIn.global_ /\ \A k \in DOMAIN fIn.local : BothNumeric(k))
              => fOut.ret = fIn.local

\* C19, amended: the fused value of a key numeric in both inputs is the
\* arithmetic mean rounded to four decimal places (a ten-thousandth nearest
\* to the mean); the other keys are copied, local first; fuse(w, w) = w
\* for a numeric map w whose values have at most four decimal places
C19_FuseIsRoundedMean ==
    fOut.fn = "fuse" =>
        /\ FuseKeysAndCopies
        /\ \A k \in DOMAIN fOut.ret :
              BothNumeric(k) =>
                  /\ fOut.ret[k].t = "num"
                  /\ 2 * fOut.ret[k].n - (fIn.local[k].n + fIn.global_[k].n)
                        \in {-1, 0, 1}
        /\ (fIn.local = fIn.global_ /\ \A k \in DOMAIN fIn.local : BothNumeric(k))
              => fOut.ret = fIn.local

\* 1.0 and 1.0001 fuse to 1.0, not to 1.00005, while a key that only the
\* global map has is copied from there
C19_Witness ==
    /\ fOut.fn = "fuse"
    /\ fIn.local = [depth_multiplier |-> Num(10000)]
    /\ fIn.global_ = [depth_multiplier |-> Num(10001), security_bias |-> Str("fused")]
    /\ fOut.ret = [depth_multiplier |-> Num(10000), security_bias |-> Str("fused")]

\* the values of key k that are numeric, over the maps given to merge_weights
Contributing(k) ==
    {fIn.weights_list[i][k].n : i \in {j \in 1..Len(fIn.weights_list) :
        k \in DOMAIN fIn.weights_list[j] /\ fIn.weights_list[j][k].t = "num"}}

ContributingSum(k) ==
    SumSeq([i \in 1..Len(fIn.weights_list) |->
              IF k \in DOMAIN fIn.weights_list[i] /\ fIn.weights_list[i][k].t = "num"
              THEN fIn.weights_list[i][k].n ELSE 0])

ContributingCount(k) ==
    Cardinality({i \in 1..Len(fIn.weights_list) :
        k \in DOMAIN fIn.weights_list[i] /\ fIn.weights_list[i][k].t = "num"})

\* with no map the result is the baseline, six weights 1.0; otherwise its
\* keys are the keys numeric in some map, and last_updated
MergeKeys ==
    IF fIn.weights_list = <<>>
    THEN /\ DOMAIN fOut.ret = {"clarity", "depth", "risk_awareness", "actionability",
                               "consistency", "confidence", "last_updated"}
         /\ \A k \in DOMAIN fOut.ret \ {"last_updated"} : fOut.ret[k] = Num(10000)
    ELSE DOMAIN fOut.ret =
             {k \in {"clarity", "last_updated"} : Contributing(k) # {}}
             \cup {"last_updated"}

\* C20 as stated: baseline for no maps; otherwise the keys numeric in some
\* input plus last_updated, each merged value being the mean of the numeric
\* values of its key, hence between the smallest and the largest of them
C20_MergeIsMean ==
    fOut.fn = "merge" =>
        /\ MergeKeys
        /\ fIn.weights_list # <<>> =>
              \A k \in DOMAIN fOut.ret \ {"last_updated"} :
                  /\ fOut.ret[k].t = "num"
                  /\ fOut.ret[k].n * ContributingCount(k) = ContributingSum(k)
                  /\ \E lo \in Contributing(k) : lo <= fOut.ret[k].n
                  /\ \E hi \in Contributing(k) : fOut.ret[k].n <= hi

\* C20, amended: each merged value is the mean of the numeric values of
\* its key rounded to three decimal places, hence within 0.0005 of the
\* range from the smallest to the largest of them
C20_MergeIsRoundedMean ==
    fOut.fn = "merge" =>
        /\ MergeKeys
        /\ fIn.weights_list # <<>> =>
              \A k \in DOMAIN fOut.ret \ {"last_updated"} :
                  /\ fOut.ret[k].t = "num"
                  /\ fOut.ret[k].n % 10 = 0
                  /\ fOut.ret[k].n * ContributingCount(k) - ContributingSum(k)
                        \in (0 - 5 * ContributingCount(k))..(5 * ContributingCount(k))
                  /\ \E lo \in Contributing(k) : lo - 5 <= fOut.ret[k].n
                  /\ \E hi \in Contributing(k) : fOut.ret[k].n <= hi + 5

\* two maps: clarity 1.0004 in one and a string in the other, last_updated
\* a number in one; the merged clarity is 1.0, below the only contributing
\* value, and last_updated is the new timestamp
C20_Witness ==
    /\ fOut.fn = "merge"
    /\ fIn.weights_list = <<[clarity |-> Num(10004), last_updated |-> Num(10020)],
                            [clarity |-> Str("now")]>>
    /\ fOut.ret = [clarity |-> Num(10000), last_updated |-> Str("now")]

-----------------------------------------------------------------------------
(* Properties of self_evolve *)

\* C16: the first run of self_evolve.main records delta_priority 0; a run
\* that follows a run which read a non-zero avg_priority p1, and itself reads
\* p2, records prev_avg_priority = p1 and delta_priority = p2 - p1
C16_DeltaAgainstPreviousRun ==
    LET n == Len(evo.seen)
    IN /\ n = 1 => evo.state.val["delta_priority"] = 0
       /\ (n >= 2 /\ evo.seen[n - 1] # 0) =>
             /\ evo.state.val["prev_avg_priority"] = evo.seen[n - 1]
             /\ evo.state.val["delta_priority"] = evo.seen[n] - evo.seen[n - 1]

-----------------------------------------------------------------------------
(* Properties of the retry loops *)

Retriable(o) == o.kind = "exception" /\ o.what \in {"rate limit", "api error"}

====
